---- MODULE Spec2Model ----
(***************************************************************************)
(* Model of two entry points of the repository:                            *)
(*   scripts/performance/llm/pretrain_mixtral_8x22b.py                     *)
(*       override_recipe_configs and the __main__ launch driver            *)
(*   nemo/collections/vlm/neva/data/api.py                                 *)
(*       the data-module factories mock() and lazy()                       *)
(*                                                                         *)
(* Python's None is the empty set and a present value x is {x}, so that an *)
(* Optional[int] compares with "=" and "#".  Python strings that the code  *)
(* transforms are sequences of one-character strings.                      *)
(***************************************************************************)
EXTENDS Integers, Sequences, FiniteSets, TLC

VARIABLES entry, pc, args, kwargs, primary, recipe, executor, plugins, exp,
          calls, failure, apiCalls, returned

vars == <<entry, pc, args, kwargs, primary, recipe, executor, plugins, exp,
          calls, failure, apiCalls, returned>>

driverVars == <<pc, args, kwargs, primary, recipe, executor, plugins, exp,
                calls, failure>>

apiVars == <<apiCalls, returned>>

(* ----------------------------- bounds ---------------------------------- *)
MaxSteps == 2
MaxBatch == 2
MaxPar == 2
MaxCalls == 3

(* ------------------------- program constants --------------------------- *)
NcclPpCommChunksize == 2097152
NsysStartStep == 5
NsysEndStep == 6
MockSeqLength == 4096
MockGlobalBatchSize == 16
MockMicroBatchSize == 2
LazySeqLength == 4096
LazyGlobalBatchSize == 16
LazyMicroBatchSize == 2

None == {}
Some(x) == {x}
The(s) == CHOOSE x \in s : TRUE

(* ------------------------------ strings -------------------------------- *)
\* str.lower(), character by character, on the alphabet the inputs use
LowerChar(c) ==
    CASE c = "B" -> "b"
      [] c = "F" -> "f"
      [] c = "P" -> "p"
      [] OTHER -> c

Lower(s) == [i \in DOMAIN s |-> LowerChar(s[i])]

Fp8Literal == <<"f", "p", "8">>

TokenizerName == "mistralai/Mixtral-8x22B-v0.1"

\* values of args.compute_dtype handed to the script
ComputeDtypes == { <<"b", "f", "1", "6">>, <<"f", "p", "8">>, <<"F", "P", "8">> }

(* ----------------------- collaborators' results ------------------------ *)
\* hf_tokenizer(name): the tokenizer configuration built for a model name
hf_tokenizer(name) == [kind |-> "hf_tokenizer", pretrained_model_name |-> name]

\* bf16_with_fp8_mixed(): a fresh precision plugin; g is the default it
\* carries for grad_reduce_in_fp32
bf16_with_fp8_mixed(g) == [name |-> "bf16_with_fp8_mixed", grad_reduce_in_fp32 |-> g]

\* the recipes set_primary_perf_configs(pretrain_recipe(performance_mode=True), ...)
\* can hand back.  The flags override_recipe_configs conditionally keeps vary
\* freely; the two CUDA-graph defaults vary together; the sample count is one
\* that no product max_steps * gbs * mbs equals, the tokenizer is not the
\* Mixtral one.
PrimaryRecipes ==
    { [ data |-> [num_train_samples |-> n,
                  tokenizer |-> [kind |-> "default", pretrained_model_name |-> "none"]],
        trainer |-> [plugins |-> [name |-> "bf16_mixed", grad_reduce_in_fp32 |-> g],
                     strategy |-> [use_te_rng_tracker |-> c,
                                   ddp |-> [average_in_collective |-> a]]],
        model |-> [config |-> [enable_cuda_graph |-> c]] ]
      : n \in {0}, g \in BOOLEAN, a \in BOOLEAN, c \in BOOLEAN }

(* ----------------------- override_recipe_configs ----------------------- *)
\* variant: the sample count forgets the micro batch size
DataConfigs_NoMbs(r, a, mbs, gbs) ==
    [r EXCEPT !.data.num_train_samples = a.max_steps * gbs,
              !.data.tokenizer = hf_tokenizer(TokenizerName)]

\* variant: the tokenizer of the primary recipe is kept
DataConfigs_KeepTokenizer(r, a, mbs, gbs) ==
    [r EXCEPT !.data.num_train_samples = a.max_steps * gbs * mbs]

\* data module configs
DataConfigs(r, a, mbs, gbs) ==
    [r EXCEPT !.data.num_train_samples = a.max_steps * gbs * mbs,
              !.data.tokenizer = hf_tokenizer(TokenizerName)]

\* variant: the comparison with "fp8" is case sensitive
ComputeDtypeConfigs_NoLower(r, a, g) ==
    IF a.compute_dtype = Fp8Literal
    THEN [r EXCEPT !.trainer.plugins =
                       [bf16_with_fp8_mixed(g) EXCEPT !.grad_reduce_in_fp32 = FALSE]]
    ELSE r

\* compute dtype configs
ComputeDtypeConfigs(r, a, g) ==
    IF Lower(a.compute_dtype) = Fp8Literal
    THEN [r EXCEPT !.trainer.plugins =
                       [bf16_with_fp8_mixed(g) EXCEPT !.grad_reduce_in_fp32 = FALSE]]
    ELSE r

\* variant: the test for None is missing
AverageInCollectiveConfigs_NoNoneCheck(r, tp_size, etp_size) ==
    IF etp_size # Some(tp_size)
    THEN [r EXCEPT !.trainer.strategy.ddp.average_in_collective = FALSE]
    ELSE r

\* mitigation for tp_size != etp_size
AverageInCollectiveConfigs(r, tp_size, etp_size) ==
    IF etp_size # None /\ etp_size # Some(tp_size)
    THEN [r EXCEPT !.trainer.strategy.ddp.average_in_collective = FALSE]
    ELSE r

\* variant: only the model-level flag is set
CudaGraphConfigs_OnlyModel(r, enable_cuda_graphs) ==
    [r EXCEPT !.model.config.enable_cuda_graph = enable_cuda_graphs]

CudaGraphConfigs(r, enable_cuda_graphs) ==
    [r EXCEPT !.model.config.enable_cuda_graph = enable_cuda_graphs,
              !.trainer.strategy.use_te_rng_tracker = enable_cuda_graphs]

\* base is what set_primary_perf_configs returned
override_recipe_configs(a, mbs, gbs, tp_size, etp_size, enable_cuda_graphs, base, g) ==
    CudaGraphConfigs(
        AverageInCollectiveConfigs(
            ComputeDtypeConfigs(DataConfigs(base, a, mbs, gbs), a, g),
            tp_size, etp_size),
        enable_cuda_graphs)

(* ------------------------------ plugins -------------------------------- *)
PerfEnvPlugin(enable_vboost, nccl_pp_comm_chunksize) ==
    [name |-> "PerfEnvPlugin", enable_vboost |-> enable_vboost,
     nccl_pp_comm_chunksize |-> nccl_pp_comm_chunksize]

NsysPlugin(start_step, end_step) ==
    [name |-> "NsysPlugin", start_step |-> start_step, end_step |-> end_step]

\* variant: the profiler plugin is put in front
BuildPluginList_NsysFirst(pp_size, enable_nsys) ==
    LET first == <<PerfEnvPlugin(TRUE, IF pp_size > 1 THEN Some(NcclPpCommChunksize) ELSE None)>>
    IN IF enable_nsys
       THEN <<NsysPlugin(NsysStartStep, NsysEndStep)>> \o first
       ELSE first

\* variant: the chunk size is set from pp_size >= 1 on
BuildPluginList_ChunkGe(pp_size, enable_nsys) ==
    LET first == <<PerfEnvPlugin(TRUE, IF pp_size >= 1 THEN Some(NcclPpCommChunksize) ELSE None)>>
    IN IF enable_nsys
       THEN Append(first, NsysPlugin(NsysStartStep, NsysEndStep))
       ELSE first

BuildPluginList(pp_size, enable_nsys) ==
    LET first == <<PerfEnvPlugin(TRUE, IF pp_size > 1 THEN Some(NcclPpCommChunksize) ELSE None)>>
    IN IF enable_nsys
       THEN Append(first, NsysPlugin(NsysStartStep, NsysEndStep))
       ELSE first

(* --------------------------- data modules ------------------------------ *)
MockDataModule(seq_length, global_batch_size, micro_batch_size) ==
    [class |-> "MockDataModule", seq_length |-> seq_length,
     global_batch_size |-> global_batch_size, micro_batch_size |-> micro_batch_size]

NevaLazyDataModule(seq_length, global_batch_size, micro_batch_size) ==
    [class |-> "NevaLazyDataModule", seq_length |-> seq_length,
     global_batch_size |-> global_batch_size, micro_batch_size |-> micro_batch_size]

mock == MockDataModule(MockSeqLength, MockGlobalBatchSize, MockMicroBatchSize)

\* variant: the two batch sizes are swapped
lazy_SwappedBatch == NevaLazyDataModule(LazySeqLength, LazyMicroBatchSize, LazyGlobalBatchSize)

lazy == NevaLazyDataModule(LazySeqLength, LazyGlobalBatchSize, LazyMicroBatchSize)

(* ------------------------------- Init ---------------------------------- *)
Init ==
    /\ entry \in {"driver", "api"}
    /\ pc = "start"
    /\ args = None
    /\ kwargs = None
    /\ primary = None
    /\ recipe = None
    /\ executor = None
    /\ plugins = <<>>
    /\ exp = [entered |-> FALSE, tasks |-> <<>>, runs |-> <<>>, dryruns |-> 0]
    /\ calls = <<>>
    /\ failure = None
    /\ apiCalls = <<>>
    /\ returned = <<>>

(* -------------------------- the launch driver -------------------------- *)
\* args = parse_cli_args().parse_args()
ParseArgs ==
    /\ entry = "driver"
    /\ pc = "start"
    /\ \E ms \in 1..MaxSteps, dt \in ComputeDtypes, nsys \in BOOLEAN, dry \in BOOLEAN :
          args' = Some([max_steps |-> ms, compute_dtype |-> dt,
                        enable_nsys |-> nsys, dryrun |-> dry])
    /\ calls' = Append(calls, "parse_cli_args")
    /\ pc' = "parsed"
    /\ UNCHANGED <<entry, kwargs, primary, recipe, executor, plugins, exp, failure, apiVars>>

\* variant: the failure of the check is swallowed and the driver goes on
ArgsSanityCheck_Swallowed ==
    /\ entry = "driver"
    /\ pc = "parsed"
    /\ calls' = Append(calls, "args_sanity_check")
    /\ \E ok \in BOOLEAN :
          IF ok
          THEN pc' = "checked" /\ failure' = failure
          ELSE pc' = "checked" /\ failure' = Some("args_sanity_check")
    /\ UNCHANGED <<entry, args, kwargs, primary, recipe, executor, plugins, exp, apiVars>>

\* args_sanity_check(args): returns, or raises/exits; nothing catches it
ArgsSanityCheck ==
    /\ entry = "driver"
    /\ pc = "parsed"
    /\ calls' = Append(calls, "args_sanity_check")
    /\ \E ok \in BOOLEAN :
          IF ok
          THEN pc' = "checked" /\ failure' = failure
          ELSE pc' = "halted" /\ failure' = Some("args_sanity_check")
    /\ UNCHANGED <<entry, args, kwargs, primary, recipe, executor, plugins, exp, apiVars>>

\* kwargs = get_user_configs(...), unpacked
GetUserConfigs ==
    /\ entry = "driver"
    /\ pc = "checked"
    /\ \E mbs \in 1..MaxBatch, gbs \in 1..MaxBatch, tp \in 1..MaxPar, pp \in 1..MaxPar,
          etp \in {None} \cup {Some(n) : n \in 1..MaxPar}, ecg \in BOOLEAN :
          kwargs' = Some([mbs |-> mbs, gbs |-> gbs, tp_size |-> tp, pp_size |-> pp,
                          etp_size |-> etp, enable_cuda_graphs |-> ecg])
    /\ calls' = Append(calls, "get_user_configs")
    /\ pc' = "configured"
    /\ UNCHANGED <<entry, args, primary, recipe, executor, plugins, exp, failure, apiVars>>

\* recipe = override_recipe_configs(args, ...)
OverrideRecipeConfigs ==
    /\ entry = "driver"
    /\ pc = "configured"
    /\ \E base \in PrimaryRecipes, g \in BOOLEAN :
          LET a == The(args)
              k == The(kwargs)
          IN /\ primary' = Some(base)
             /\ recipe' = Some(override_recipe_configs(a, k.mbs, k.gbs, k.tp_size,
                                   k.etp_size, k.enable_cuda_graphs, base, g))
    /\ calls' = Append(calls, "override_recipe_configs")
    /\ pc' = "recipe_built"
    /\ UNCHANGED <<entry, args, kwargs, executor, plugins, exp, failure, apiVars>>

\* executor = slurm_executor(...)
SlurmExecutor ==
    /\ entry = "driver"
    /\ pc = "recipe_built"
    /\ executor' = Some([name |-> "slurm_executor"])
    /\ calls' = Append(calls, "slurm_executor")
    /\ pc' = "executor_built"
    /\ UNCHANGED <<entry, args, kwargs, primary, recipe, plugins, exp, failure, apiVars>>

\* plugins = [PerfEnvPlugin(...)]; if args.enable_nsys: plugins.append(NsysPlugin(...))
BuildPlugins ==
    /\ entry = "driver"
    /\ pc = "executor_built"
    /\ plugins' = BuildPluginList(The(kwargs).pp_size, The(args).enable_nsys)
    /\ pc' = "plugins_built"
    /\ UNCHANGED <<entry, args, kwargs, primary, recipe, executor, exp, calls, failure, apiVars>>

\* with run.Experiment(exp_name) as exp: exp.add(recipe, executor=..., plugins=plugins)
ExpAdd ==
    /\ entry = "driver"
    /\ pc = "plugins_built"
    /\ exp' = [exp EXCEPT !.entered = TRUE,
                          !.tasks = Append(@, [recipe |-> The(recipe),
                                               executor |-> The(executor),
                                               plugins |-> plugins])]
    /\ calls' = Append(calls, "exp.add")
    /\ pc' = "added"
    /\ UNCHANGED <<entry, args, kwargs, primary, recipe, executor, plugins, failure, apiVars>>

\* variant: exp.run is not guarded by args.dryrun
ExpRun_Unconditional ==
    /\ entry = "driver"
    /\ pc = "added"
    /\ exp' = [exp EXCEPT !.runs = Append(@, [sequential |-> TRUE, detach |-> TRUE])]
    /\ calls' = Append(calls, "exp.run")
    /\ pc' = "done"
    /\ UNCHANGED <<entry, args, kwargs, primary, recipe, executor, plugins, failure, apiVars>>

\* if not args.dryrun: exp.run(sequential=True, detach=True)
ExpRun ==
    /\ entry = "driver"
    /\ pc = "added"
    /\ ~The(args).dryrun
    /\ exp' = [exp EXCEPT !.runs = Append(@, [sequential |-> TRUE, detach |-> TRUE])]
    /\ calls' = Append(calls, "exp.run")
    /\ pc' = "done"
    /\ UNCHANGED <<entry, args, kwargs, primary, recipe, executor, plugins, failure, apiVars>>

\* else: exp.dryrun()
ExpDryrun ==
    /\ entry = "driver"
    /\ pc = "added"
    /\ The(args).dryrun
    /\ exp' = [exp EXCEPT !.dryruns = @ + 1]
    /\ calls' = Append(calls, "exp.dryrun")
    /\ pc' = "done"
    /\ UNCHANGED <<entry, args, kwargs, primary, recipe, executor, plugins, failure, apiVars>>

(* ----------------------- the data-module factory ----------------------- *)
Mock ==
    /\ entry = "api"
    /\ Len(apiCalls) < MaxCalls
    /\ apiCalls' = Append(apiCalls, "mock")
    /\ returned' = Append(returned, mock)
    /\ UNCHANGED <<entry, driverVars>>

Lazy ==
    /\ entry = "api"
    /\ Len(apiCalls) < MaxCalls
    /\ apiCalls' = Append(apiCalls, "lazy")
    /\ returned' = Append(returned, lazy)
    /\ UNCHANGED <<entry, driverVars>>

Next ==
    \/ ParseArgs
    \/ ArgsSanityCheck
    \/ GetUserConfigs
    \/ OverrideRecipeConfigs
    \/ SlurmExecutor
    \/ BuildPlugins
    \/ ExpAdd
    \/ ExpRun
    \/ ExpDryrun
    \/ Mock
    \/ Lazy

Spec == Init /\ [][Next]_vars

(* ------------------------------ claims --------------------------------- *)
RecipeBuilt == recipe # None

Count(name) == Cardinality({i \in DOMAIN calls : calls[i] = name})

Downstream == {"get_user_configs", "override_recipe_configs", "slurm_executor",
               "exp.add", "exp.run", "exp.dryrun"}

\* C1: once override_recipe_configs has returned, recipe.data.num_train_samples
\* is args.max_steps * gbs * mbs, whatever the primary recipe carried.
C1_NumTrainSamples ==
    RecipeBuilt =>
        The(recipe).data.num_train_samples =
            The(args).max_steps * The(kwargs).gbs * The(kwargs).mbs

C1_Witness ==
    /\ RecipeBuilt
    /\ The(args).max_steps = 2 /\ The(kwargs).gbs = 2 /\ The(kwargs).mbs = 2
    /\ The(primary).data.num_train_samples = 0
    /\ The(recipe).data.num_train_samples = 8

\* C2 as stated: the plugin is swapped exactly when compute_dtype is the
\* string "fp8", and left as set_primary_perf_configs returned it for every
\* other string.
C2_Original ==
    RecipeBuilt =>
        IF The(args).compute_dtype = Fp8Literal
        THEN /\ The(recipe).trainer.plugins.name = "bf16_with_fp8_mixed"
             /\ The(recipe).trainer.plugins.grad_reduce_in_fp32 = FALSE
        ELSE The(recipe).trainer.plugins = The(primary).trainer.plugins

\* C2 (amended): the plugin is swapped, with grad_reduce_in_fp32 False, exactly
\* when compute_dtype lower-cased is "fp8"; for every other string the plugin
\* is what set_primary_perf_configs returned.
C2_PrecisionPlugin ==
    RecipeBuilt =>
        IF Lower(The(args).compute_dtype) = <<"f", "p", "8">>
        THEN /\ The(recipe).trainer.plugins.name = "bf16_with_fp8_mixed"
             /\ The(recipe).trainer.plugins.grad_reduce_in_fp32 = FALSE
        ELSE The(recipe).trainer.plugins = The(primary).trainer.plugins

C2_Witness ==
    /\ RecipeBuilt
    /\ The(args).compute_dtype = <<"F", "P", "8">>
    /\ The(primary).trainer.plugins.grad_reduce_in_fp32 = TRUE
    /\ The(recipe).trainer.plugins =
           [name |-> "bf16_with_fp8_mixed", grad_reduce_in_fp32 |-> FALSE]

\* C3: average_in_collective is False when etp_size is given and differs from
\* tp_size, and otherwise keeps the value set_primary_perf_configs left.
C3_AverageInCollective ==
    RecipeBuilt =>
        LET k == The(kwargs)
            avg == The(recipe).trainer.strategy.ddp.average_in_collective
        IN IF k.etp_size # None /\ k.etp_size # Some(k.tp_size)
           THEN avg = FALSE
           ELSE avg = The(primary).trainer.strategy.ddp.average_in_collective

C3_Witness ==
    /\ RecipeBuilt
    /\ The(kwargs).etp_size = Some(2) /\ The(kwargs).tp_size = 1
    /\ The(primary).trainer.strategy.ddp.average_in_collective = TRUE
    /\ The(recipe).trainer.strategy.ddp.average_in_collective = FALSE

\* C4: both CUDA-graph flags of the returned recipe equal enable_cuda_graphs,
\* for every compute_dtype and every tp_size/etp_size relation.
C4_CudaGraphFlags ==
    RecipeBuilt =>
        /\ The(recipe).model.config.enable_cuda_graph = The(kwargs).enable_cuda_graphs
        /\ The(recipe).trainer.strategy.use_te_rng_tracker = The(kwargs).enable_cuda_graphs

C4_Witness ==
    /\ RecipeBuilt
    /\ The(kwargs).enable_cuda_graphs = TRUE
    /\ The(primary).model.config.enable_cuda_graph = FALSE
    /\ The(primary).trainer.strategy.use_te_rng_tracker = FALSE
    /\ The(recipe).trainer.strategy.use_te_rng_tracker = TRUE

\* C5: the tokenizer of the returned recipe is the one hf_tokenizer builds for
\* "mistralai/Mixtral-8x22B-v0.1", for every input and every primary recipe.
C5_Tokenizer ==
    RecipeBuilt =>
        The(recipe).data.tokenizer = hf_tokenizer("mistralai/Mixtral-8x22B-v0.1")

C5_Witness ==
    /\ RecipeBuilt
    /\ The(args).compute_dtype = <<"b", "f", "1", "6">>
    /\ The(primary).data.tokenizer.kind = "default"
    /\ The(recipe).data.tokenizer.pretrained_model_name = "mistralai/Mixtral-8x22B-v0.1"

\* C6: the i-th call of the factory returns a module of the class of the
\* function called, with seq_length 4096, global_batch_size 16 and
\* micro_batch_size 2, whatever was called before.
C6_DataModules ==
    /\ Len(returned) = Len(apiCalls)
    /\ \A i \in DOMAIN returned :
          /\ returned[i].seq_length = 4096
          /\ returned[i].global_batch_size = 16
          /\ returned[i].micro_batch_size = 2
          /\ returned[i].class = IF apiCalls[i] = "mock" THEN "MockDataModule"
                                 ELSE "NevaLazyDataModule"

C6_Witness ==
    /\ Len(returned) >= 3
    /\ apiCalls[1] = "lazy" /\ apiCalls[2] = "mock" /\ apiCalls[3] = "lazy"
    /\ returned[3] = returned[1]

\* C7: the recipe is added to the experiment at most once, a submission
\* follows the add, a dry run never calls exp.run and a non-dry run never
\* calls exp.dryrun; after the add one submission can be taken, and a finished
\* run has exactly one add and exactly the one submission args.dryrun selects
\* (exp.run with sequential and detach both True).
C7_Submission ==
    /\ Len(exp.tasks) <= 1
    /\ Count("exp.add") = Len(exp.tasks)
    /\ Count("exp.run") = Len(exp.runs)
    /\ Count("exp.dryrun") = exp.dryruns
    /\ Len(exp.runs) + exp.dryruns <= 1
    /\ \A i \in DOMAIN exp.runs : exp.runs[i] = [sequential |-> TRUE, detach |-> TRUE]
    /\ Len(exp.runs) + exp.dryruns = 1 =>
          /\ Len(exp.tasks) = 1
          /\ calls[Len(calls) - 1] = "exp.add"
          /\ calls[Len(calls)] \in {"exp.run", "exp.dryrun"}
    /\ args # None =>
          /\ The(args).dryrun => Len(exp.runs) = 0
          /\ ~The(args).dryrun => exp.dryruns = 0
    /\ pc = "added" =>
          /\ Len(exp.tasks) = 1
          /\ ENABLED (ExpRun \/ ExpDryrun)
    /\ pc = "done" =>
          /\ Len(exp.tasks) = 1
          /\ IF The(args).dryrun THEN exp.dryruns = 1 ELSE Len(exp.runs) = 1

C7_Witness ==
    /\ pc = "done"
    /\ The(args).dryrun
    /\ exp.dryruns = 1
    /\ Len(exp.runs) = 0
    /\ Len(exp.tasks) = 1

\* C8: args_sanity_check is the second call, right after argument parsing, and
\* precedes every later collaborator call; when it halts, the failure stays in
\* flight, nothing has been or will be built or submitted, and no step follows.
C8_SanityGate ==
    /\ Count("args_sanity_check") <= 1
    /\ \A i \in DOMAIN calls :
          /\ calls[i] = "args_sanity_check" => i = 2 /\ calls[1] = "parse_cli_args"
          /\ calls[i] \in Downstream => i > 2 /\ calls[2] = "args_sanity_check"
    /\ (kwargs # None \/ recipe # None \/ executor # None \/ plugins # <<>>
          \/ exp.entered \/ exp.tasks # <<>> \/ exp.runs # <<>> \/ exp.dryruns # 0) =>
          /\ Len(calls) > 2
          /\ calls[2] = "args_sanity_check"
          /\ failure = None
    /\ failure # None =>
          /\ failure = Some("args_sanity_check")
          /\ pc = "halted"
          /\ calls = <<"parse_cli_args", "args_sanity_check">>
          /\ kwargs = None /\ primary = None /\ recipe = None /\ executor = None
          /\ plugins = <<>>
          /\ exp = [entered |-> FALSE, tasks |-> <<>>, runs |-> <<>>, dryruns |-> 0]
          /\ ~ENABLED Next

C8_Witness ==
    /\ pc = "halted"
    /\ failure = Some("args_sanity_check")
    /\ calls = <<"parse_cli_args", "args_sanity_check">>

\* C9: the plugin list handed to exp.add starts with the PerfEnvPlugin and has
\* one more element, NsysPlugin(start_step=5, end_step=6), exactly when
\* args.enable_nsys is set.
C9_PluginList ==
    \A i \in DOMAIN exp.tasks :
        LET p == exp.tasks[i].plugins
        IN /\ Len(p) = IF The(args).enable_nsys THEN 2 ELSE 1
           /\ p[1].name = "PerfEnvPlugin"
           /\ The(args).enable_nsys =>
                 /\ p[2].name = "NsysPlugin"
                 /\ p[2] = [name |-> "NsysPlugin", start_step |-> 5, end_step |-> 6]

C9_Witness ==
    /\ Len(exp.tasks) = 1
    /\ The(args).enable_nsys
    /\ Len(exp.tasks[1].plugins) = 2
    /\ exp.tasks[1].plugins[2].name = "NsysPlugin"

\* C10: the PerfEnvPlugin the driver builds has enable_vboost True, and its
\* nccl_pp_comm_chunksize is 2097152 when pp_size > 1 and None otherwise.
C10_PerfEnvPlugin ==
    plugins # <<>> =>
        /\ plugins[1].name = "PerfEnvPlugin"
        /\ plugins[1].enable_vboost = TRUE
        /\ plugins[1].nccl_pp_comm_chunksize =
               IF The(kwargs).pp_size > 1 THEN {2097152} ELSE {}

C10_Witness ==
    /\ plugins # <<>>
    /\ The(kwargs).pp_size = 1
    /\ The(args).enable_nsys
    /\ plugins[1].nccl_pp_comm_chunksize = {}

====
